---- MODULE Spec2Model ----
(***************************************************************************)
(* Mailbox synchronisation and classification pipeline of the Onebox       *)
(* backend (src/main.py): the IMAP session lifecycle of sync_account, its  *)
(* check-then-insert deduplication against the message store, and the      *)
(* rule-based classifier categorize_email.                                 *)
(*                                                                         *)
(* Python strings are modelled as sequences of one-character strings, so   *)
(* that lower-casing, substring search and the formatting of the           *)
(* synthesized message id are computed and not assumed.  An absent         *)
(* Optional[str] that the code only ever reads through `x or ''` is the    *)
(* empty sequence.                                                         *)
(*                                                                         *)
(* The mail client is Python's imaplib: select answers NO without raising  *)
(* and leaves the client in state AUTH, where search raises.  The message  *)
(* store's find_one and insert_one are atomic and taken not to fail.       *)
(***************************************************************************)
EXTENDS Integers, Sequences, FiniteSets, TLC

\* ------------------------------------------------------------------ text

\* str.lower() on the letters the model's texts use.
UpperCh ==
  <<"A","B","C","D","E","F","G","H","I","J","K","L","M",
    "N","O","P","Q","R","S","T","U","V","W","X","Y","Z">>

LowerCh ==
  <<"a","b","c","d","e","f","g","h","i","j","k","l","m",
    "n","o","p","q","r","s","t","u","v","w","x","y","z">>

LowerChar(c) ==
  IF \E i \in 1..Len(UpperCh) : UpperCh[i] = c
    THEN LowerCh[CHOOSE i \in 1..Len(UpperCh) : UpperCh[i] = c]
    ELSE c

Lower(s) == [i \in 1..Len(s) |-> LowerChar(s[i])]

\* Python's `kw in text` for a non-empty kw.
Contains(text, kw) ==
  \E i \in 1..(Len(text) - Len(kw) + 1) : SubSeq(text, i, i + Len(kw) - 1) = kw

\* any(k in text for k in kws)
AnyIn(text, kws) == \E j \in 1..Len(kws) : Contains(text, kws[j])

\* ------------------------------------------------------------ classifier

\* ai_category of a message no rule matches (Python None).
NoCategory == "None"

\* main.py:137
OutOfOfficeTerms ==
  << <<"o","u","t"," ","o","f"," ","o","f","f","i","c","e">>,
     <<"o","o","o">>,
     <<"v","a","c","a","t","i","o","n"," ","a","u","t","o","-","r","e","p","l","y">>,
     <<"a","u","t","o","m","a","t","i","c"," ","r","e","p","l","y">> >>

\* main.py:139
NotInterestedTerms ==
  << <<"n","o","t"," ","i","n","t","e","r","e","s","t","e","d">>,
     <<"n","o"," ","l","o","n","g","e","r"," ","i","n","t","e","r","e","s","t","e","d">>,
     <<"u","n","s","u","b","s","c","r","i","b","e">> >>

\* main.py:141
MeetingIntentTerms ==
  << <<"m","e","e","t","i","n","g">>,
     <<"c","a","l","e","n","d","a","r">>,
     <<"s","c","h","e","d","u","l","e">>,
     <<"b","o","o","k"," ","a"," ","t","i","m","e">>,
     <<"l","e","t","'","s"," ","m","e","e","t">> >>

\* main.py:142
SchedulingArtifactTerms ==
  << <<"b","o","o","k">>,
     <<"l","i","n","k">>,
     <<"s","c","h","e","d","u","l","e">>,
     <<"s","l","o","t">>,
     <<"c","a","l",".","c","o","m">>,
     <<"c","a","l","e","n","d","l","y">> >>

\* main.py:144
InterestedTerms ==
  << <<"b","u","y">>,
     <<"i","n","t","e","r","e","s","t","e","d">>,
     <<"s","o","u","n","d","s"," ","g","o","o","d">>,
     <<"l","e","t","'","s"," ","t","a","l","k">>,
     <<"l","e","t"," ","u","s"," ","t","a","l","k">> >>

\* main.py:146
SpamTerms ==
  << <<"v","i","a","g","r","a">>,
     <<"l","o","t","t","e","r","y">>,
     <<"c","l","a","i","m"," ","p","r","i","z","e">>,
     <<"c","r","y","p","t","o"," ","g","i","v","e","a","w","a","y">>,
     <<"s","p","a","m">> >>

\* The separator of f"{subject or ''} \n {body or ''}".
TextSeparator == <<" ","\n"," ">>

ClassifierText(subject, body) == Lower(subject \o TextSeparator \o body)

\* categorize_email with rule 3 asking for a scheduling-artifact term only.
categorize_email_ArtifactOnly(subject, body) ==
  LET text == ClassifierText(subject, body) IN
  IF AnyIn(text, OutOfOfficeTerms) THEN "Out of Office"
  ELSE IF AnyIn(text, NotInterestedTerms) THEN "Not Interested"
  ELSE IF AnyIn(text, SchedulingArtifactTerms) THEN "Meeting Booked"
  ELSE IF AnyIn(text, InterestedTerms) THEN "Interested"
  ELSE IF AnyIn(text, SpamTerms) THEN "Spam"
  ELSE NoCategory

\* categorize_email with the Interested rule tested before the Not Interested one.
categorize_email_InterestedFirst(subject, body) ==
  LET text == ClassifierText(subject, body) IN
  IF AnyIn(text, OutOfOfficeTerms) THEN "Out of Office"
  ELSE IF AnyIn(text, InterestedTerms) THEN "Interested"
  ELSE IF AnyIn(text, NotInterestedTerms) THEN "Not Interested"
  ELSE IF AnyIn(text, MeetingIntentTerms) /\ AnyIn(text, SchedulingArtifactTerms)
    THEN "Meeting Booked"
  ELSE IF AnyIn(text, SpamTerms) THEN "Spam"
  ELSE NoCategory

categorize_email(subject, body) ==
  LET text == ClassifierText(subject, body) IN
  IF AnyIn(text, OutOfOfficeTerms) THEN "Out of Office"
  ELSE IF AnyIn(text, NotInterestedTerms) THEN "Not Interested"
  ELSE IF AnyIn(text, MeetingIntentTerms) /\ AnyIn(text, SchedulingArtifactTerms)
    THEN "Meeting Booked"
  ELSE IF AnyIn(text, InterestedTerms) THEN "Interested"
  ELSE IF AnyIn(text, SpamTerms) THEN "Spam"
  ELSE NoCategory

T_Empty == <<>>

T_Hello == <<"H","e","l","l","o">>

T_OOO == <<"O","u","t"," ","O","f"," ","O","f","f","i","c","e">>

T_Looong == <<"a"," ","l","o","o","o","n","g"," ","d","a","y">>

T_Unsub == <<"U","n","s","u","b","s","c","r","i","b","e">>

T_NotInt == <<"N","O","T"," ","i","n","t","e","r","e","s","t","e","d">>

T_Interested == <<"I","n","t","e","r","e","s","t","e","d">>

T_Meeting == <<"m","e","e","t","i","n","g">>

T_Calendly == <<"C","a","l","e","n","d","l","y">>

T_BookTime == <<"B","o","o","k"," ","a"," ","t","i","m","e">>

T_Schedule == <<"s","c","h","e","d","u","l","e">>

T_Slot == <<"s","l","o","t">>

T_Buy == <<"b","u","y">>

T_Lottery == <<"L","o","t","t","e","r","y">>

T_IntCal == <<"i","n","t","e","r","e","s","t","e","d",","," ","s","e","e"," ","c","a","l","e","n","d","l","y">>

\* ------------------------------------------------------- accounts, mailbox

\* The emailaccount collection: _id is the opaque ObjectId (str(_id) is its
\* hexadecimal text, one text per id), username the IMAP login name.
AccountDocs ==
  { [_id |-> "a1", username |-> <<"u","1">>],
    [_id |-> "a2", username |-> <<"u","2">>] }

AccountIds == { d._id : d \in AccountDocs }

AccountDoc(a) == CHOOSE d \in AccountDocs : d._id = a

F_INBOX == <<"I","N","B","O","X">>

F_Sent == <<"S","e","n","t">>

FolderNames == { F_INBOX, F_Sent }

\* Message-ID header values; the empty sequence is a message without the header.
H_None == <<>>

H_X == <<"<","x",">">>

H_Y == <<"<","y",">">>

\* The characters of the texts the mailbox messages carry: a subject or body
\* is written as a string and read by the classifier as its characters.
Chars(s) ==
  CASE s = "" -> T_Empty
    [] s = "Hello" -> T_Hello
    [] s = "Unsubscribe" -> T_Unsub
    [] s = "Interested" -> T_Interested
    [] s = "meeting" -> T_Meeting
    [] s = "slot" -> T_Slot
    [] s = "Lottery" -> T_Lottery
    [] s = "interested, see calendly" -> T_IntCal

\* A message held by the mail server: its Message-ID header, its age in days
\* (what SINCE is matched against) and its single text/plain part.
Msg(h, age, s, b) == [header |-> h, age |-> age, subject |-> s, body |-> b]

\* The remote mailboxes: <x> is in both folders of a1 and in a2's INBOX,
\* each account has a message without Message-ID, and a1's Sent holds one
\* message older than a week.
InitMailbox ==
  [a \in AccountIds |->
     IF a = "a1"
       THEN [f \in FolderNames |->
               IF f = F_INBOX
                 THEN << Msg(H_X, 1, "Hello", "interested, see calendly"), Msg(H_None, 2, "Hello", "Unsubscribe") >>
                 ELSE << Msg(H_X, 1, "Hello", "interested, see calendly"), Msg(H_Y, 30, "meeting", "slot") >>]
       ELSE [f \in FolderNames |->
               IF f = F_INBOX
                 THEN << Msg(H_X, 3, "Interested", "Hello") >>
                 ELSE << Msg(H_None, 2, "Hello", "Lottery") >>]]

\* ------------------------------------------------------------- variables

VARIABLES
  store,     \* db["emailmessage"]: the stored documents, in insertion order
  mailbox,   \* the remote mailboxes, per account and folder
  env,       \* what the mail server answers: free, or scripted (see Outcomes)
  run,       \* the sync_account runs: each slot's locals and position
  subj,      \* classifier input: subject
  body,      \* classifier input: body
  cat,       \* classifier output ("unset" before the call)
  mime,      \* extract_body input: the parsed message
  bodies,    \* extract_body output (done = FALSE before the call)
  api        \* the last answer of a request handler, with its deliveries

vars == << store, mailbox, env, run, subj, body, cat, mime, bodies, api >>

\* Optional[str]: None, or a string.
None == [isNone |-> TRUE, str |-> <<>>]

Some(s) == [isNone |-> FALSE, str |-> s]

NoMime == [multipart |-> FALSE, parts |-> <<>>]

NoBodies == [done |-> FALSE, body_text |-> None, body_html |-> None]

\* No handler has answered yet.
NoApi == [call |-> "none", id |-> <<>>, hook |-> FALSE, status |-> 0,
          slack |-> "none", webhook |-> "none", count |-> 0, best |-> 0, cta |-> FALSE]

\* The variables of the handlers and of extract_body, at rest.
InitRest == mime = NoMime /\ bodies = NoBodies /\ api = NoApi

Runs == { "r1", "r2" }

NoDoc == [account_id |-> "", message_id |-> <<>>, folder |-> <<>>,
          subject |-> "", body_text |-> "", ai_category |-> NoCategory]

NoResult == [status |-> 0, inserted |-> 0, detail |-> ""]

\* A run slot with no sync_account call in it.
IdleRun ==
  [pc |-> "idle", account |-> "", req_folders |-> <<>>, days |-> 0,
   target_folders |-> <<>>, fi |-> 0, id_list |-> <<>>, ni |-> 0,
   imap |-> "NONE", conn |-> "none", cur |-> NoDoc, inserted |-> 0,
   attempts |-> 0, closes |-> 0, exc |-> "", result |-> NoResult]

\* ------------------------------------------------------- the mail server

ConnectAnswers == { "OK", "connect_error", "login_error" }

SelectAnswers == { "OK", "NO", "raise" }

SearchAnswers == { "OK", "NO", "raise" }

FetchAnswers == { "OK", "NO", "empty", "raise" }

LogoutAnswers == { "OK", "raise" }

\* The most faults one scripted environment holds.
MaxFaults == 1

Fault(kind, a, f, n, o) == [kind |-> kind, account |-> a, folder |-> f, num |-> n, answer |-> o]

FaultPoints ==
  { Fault("connect", a, <<>>, 0, o) : a \in AccountIds, o \in ConnectAnswers \ {"OK"} }
  \cup { Fault("select", a, f, 0, o) : a \in AccountIds, f \in FolderNames, o \in SelectAnswers \ {"OK"} }
  \cup { Fault("search", a, f, 0, o) : a \in AccountIds, f \in FolderNames, o \in SearchAnswers \ {"OK"} }
  \cup UNION { { Fault("fetch", a, f, n, o) : n \in 1..Len(InitMailbox[a][f]), o \in FetchAnswers \ {"OK"} }
               : a \in AccountIds, f \in FolderNames }
  \cup { Fault("logout", a, <<>>, 0, o) : a \in AccountIds, o \in LogoutAnswers \ {"OK"} }

SamePoint(x, y) ==
  x.kind = y.kind /\ x.account = y.account /\ x.folder = y.folder /\ x.num = y.num

RECURSIVE FaultSets(_)
\* The sets of at most k faults, no call point answered in two ways.
FaultSets(k) ==
  IF k = 0 THEN { {} }
  ELSE LET P == FaultSets(k - 1)
       IN  P \cup { G \cup {x} : G \in P,
                                x \in { y \in FaultPoints : TRUE } }

\* Scripted environments: every call is answered OK but for at most
\* MaxFaults points, each answered the same way every time it is called.
ScriptedEnvs ==
  { [scripted |-> TRUE, faults |-> F] :
      F \in { G \in FaultSets(MaxFaults) : \A x, y \in G : SamePoint(x, y) => x = y } }

FreeEnv == [scripted |-> FALSE, faults |-> {}]

\* The answers the client can get for one call: any of `all` in the free
\* environment, the scripted one otherwise.
Outcomes(kind, a, f, n, all) ==
  IF env.scripted
    THEN LET hit == { x \in env.faults : SamePoint(x, Fault(kind, a, f, n, "OK")) }
         IN  IF hit = {} THEN {"OK"} ELSE { x.answer : x \in hit }
    ELSE all

\* ------------------------------------------------------ sync_account: helpers

DigitCh == <<"0","1","2","3","4","5","6","7","8","9">>

RECURSIVE Digits(_)
\* safe_decode(num): the decimal text of a message sequence number.
Digits(n) ==
  IF n < 10 THEN << DigitCh[n + 1] >>
  ELSE Digits(n \div 10) \o << DigitCh[(n % 10) + 1] >>

\* SynthesizedId without the sequence number.
SynthesizedId_NoNum(num, folder, username) ==
  <<"u","i","d","-">> \o folder \o <<"-">> \o username

\* f"uid-{safe_decode(num)}-{folder}-{username}"
SynthesizedId(num, folder, username) ==
  <<"u","i","d","-">> \o Digits(num) \o <<"-">> \o folder \o <<"-">> \o username

\* MessageId with the header ignored: always the synthesized id.
MessageId_AlwaysSynthesized(msg, num, folder, username) ==
  SynthesizedId(num, folder, username)

\* msg.get('Message-ID') or the synthesized id
MessageId(msg, num, folder, username) ==
  IF msg.header # <<>> THEN msg.header ELSE SynthesizedId(num, folder, username)

\* The cap on the handles of one folder.
Cap == 1000

\* id_list[:Cap], the first handles instead of the last.
LastN_First(s, n) == IF Len(s) <= n THEN s ELSE SubSeq(s, 1, n)

\* id_list[-Cap:]
LastN(s, n) == IF Len(s) <= n THEN s ELSE SubSeq(s, Len(s) - n + 1, Len(s))

\* The server's answer to SEARCH (SINCE cutoff): the sequence numbers, in
\* ascending order, of the folder's messages not older than `days` days.
SearchResult(a, f, days) ==
  SelectSeq([i \in 1..Len(mailbox[a][f]) |-> i],
            LAMBDA i : mailbox[a][f][i].age <= days)

\* folders or ["INBOX"]
TargetFolders(fs) == IF fs = <<>> THEN << F_INBOX >> ELSE fs

\* Existing with the query naming the wrong field for mid.
Existing_WrongField(st, a, mid) ==
  \E i \in 1..Len(st) : st[i].folder = mid /\ st[i].account_id = a

\* Existing with the account_id left out of the query.
Existing_AnyAccount(st, a, mid) ==
  \E i \in 1..Len(st) : st[i].message_id = mid

\* db["emailmessage"].find_one({"message_id": mid, "account_id": a}) is not None
Existing(st, a, mid) ==
  \E i \in 1..Len(st) : st[i].message_id = mid /\ st[i].account_id = a

\* The document built from the fetched message (the fields the model keeps).
DecodedDoc(a, folder, num) ==
  LET msg == mailbox[a][folder][num] IN
  [account_id |-> a,
   message_id |-> MessageId(msg, num, folder, AccountDoc(a).username),
   folder |-> folder,
   subject |-> msg.subject,
   body_text |-> msg.body,
   ai_category |-> categorize_email(Chars(msg.subject), Chars(msg.body))]

\* Leave the current folder: on to the next one, or out of the folder loop.
AdvanceFolder(rec) ==
  IF rec.fi < Len(rec.target_folders)
    THEN [rec EXCEPT !.pc = "select", !.fi = @ + 1, !.id_list = <<>>, !.ni = 0, !.cur = NoDoc]
    ELSE [rec EXCEPT !.pc = "logout", !.id_list = <<>>, !.ni = 0, !.cur = NoDoc]

\* `continue` of the handle loop: on to the next handle, or out of the folder.
AdvanceMsg(rec) ==
  IF rec.ni < Len(rec.id_list)
    THEN [rec EXCEPT !.pc = "fetch", !.ni = @ + 1, !.cur = NoDoc]
    ELSE AdvanceFolder(rec)

\* An exception escapes the folder loop: on to the outer except clause.
Escapes(rec, e) == [rec EXCEPT !.pc = "fail_logout", !.exc = e, !.cur = NoDoc]

Folder(rec) == rec.target_folders[rec.fi]

Num(rec) == rec.id_list[rec.ni]

\* ------------------------------------------------------ sync_account: steps

\* trigger_sync for an existing account: the background task is queued.
TriggerSync(r, a, fs, d) ==
  /\ run[r].pc = "idle"
  /\ a \in AccountIds
  /\ run' = [run EXCEPT ![r] = [IdleRun EXCEPT !.pc = "connect", !.account = a,
                                               !.req_folders = fs, !.days = d]]
  /\ UNCHANGED << store, mailbox, env, subj, body, cat, mime, bodies, api >>

\* Connect with one more connection attempt after a failed one.
Connect_Retry(r) ==
  /\ run[r].pc = "connect"
  /\ \E o \in Outcomes("connect", run[r].account, <<>>, 0, ConnectAnswers) :
       \/ /\ o = "OK"
          /\ run' = [run EXCEPT ![r] = [@ EXCEPT !.pc = "select", !.attempts = @ + 1,
                                                 !.imap = "AUTH", !.conn = "open",
                                                 !.target_folders = TargetFolders(run[r].req_folders),
                                                 !.fi = 1, !.inserted = 0]]
       \/ /\ o # "OK"
          /\ run[r].attempts = 0
          /\ run' = [run EXCEPT ![r] = [@ EXCEPT !.attempts = @ + 1]]
       \/ /\ o # "OK"
          /\ run[r].attempts > 0
          /\ run' = [run EXCEPT ![r] = [@ EXCEPT !.pc = "done", !.attempts = @ + 1,
                                                 !.result = [status |-> 400, inserted |-> 0,
                                                             detail |-> "IMAP login failed"]]]
  /\ UNCHANGED << store, mailbox, env, subj, body, cat, mime, bodies, api >>

\* connect_imap, and on success the set-up of the folder loop.
Connect(r) ==
  /\ run[r].pc = "connect"
  /\ \E o \in Outcomes("connect", run[r].account, <<>>, 0, ConnectAnswers) :
       \/ /\ o = "OK"
          /\ run' = [run EXCEPT ![r] = [@ EXCEPT !.pc = "select", !.attempts = @ + 1,
                                                 !.imap = "AUTH", !.conn = "open",
                                                 !.target_folders = TargetFolders(run[r].req_folders),
                                                 !.fi = 1, !.inserted = 0]]
       \/ /\ o = "connect_error"
          /\ run' = [run EXCEPT ![r] = [@ EXCEPT !.pc = "done", !.attempts = @ + 1,
                                                 !.result = [status |-> 400, inserted |-> 0,
                                                             detail |-> "IMAP login failed"]]]
       \/ /\ o = "login_error"
          /\ run' = [run EXCEPT ![r] = [@ EXCEPT !.pc = "done", !.attempts = @ + 1,
                                                 !.imap = "NONAUTH", !.conn = "open",
                                                 !.result = [status |-> 400, inserted |-> 0,
                                                             detail |-> "IMAP login failed"]]]
  /\ UNCHANGED << store, mailbox, env, subj, body, cat, mime, bodies, api >>

\* M.select(folder, readonly=True) in its try/except.  A NO answer does not
\* raise: the client goes back to state AUTH and the status is dropped.
Select(r) ==
  /\ run[r].pc = "select"
  /\ \E o \in Outcomes("select", run[r].account, Folder(run[r]), 0, SelectAnswers) :
       \/ /\ o = "OK"
          /\ run' = [run EXCEPT ![r] = [@ EXCEPT !.pc = "search", !.imap = "SELECTED"]]
       \/ /\ o = "NO"
          /\ run' = [run EXCEPT ![r] = [@ EXCEPT !.pc = "search", !.imap = "AUTH"]]
       \/ /\ o = "raise"
          /\ run' = [run EXCEPT ![r] = AdvanceFolder(@)]
  /\ UNCHANGED << store, mailbox, env, subj, body, cat, mime, bodies, api >>

\* M.search(None, '(SINCE ...)'), the status test and the capped id_list.
\* The client refuses SEARCH outside state SELECTED by raising.
Search(r) ==
  /\ run[r].pc = "search"
  /\ \/ /\ run[r].imap # "SELECTED"
        /\ run' = [run EXCEPT ![r] = Escapes(@, "command SEARCH illegal in state AUTH")]
     \/ /\ run[r].imap = "SELECTED"
        /\ \E o \in Outcomes("search", run[r].account, Folder(run[r]), 0, SearchAnswers) :
             \/ /\ o = "OK"
                /\ LET ids == LastN(SearchResult(run[r].account, Folder(run[r]), run[r].days), Cap)
                   IN  run' = [run EXCEPT ![r] =
                                 IF ids = <<>> THEN AdvanceFolder(@)
                                 ELSE [@ EXCEPT !.pc = "fetch", !.id_list = ids, !.ni = 1]]
             \/ /\ o = "NO"
                /\ run' = [run EXCEPT ![r] = AdvanceFolder(@)]
             \/ /\ o = "raise"
                /\ run' = [run EXCEPT ![r] = Escapes(@, "SEARCH raised")]
  /\ UNCHANGED << store, mailbox, env, subj, body, cat, mime, bodies, api >>

\* M.fetch(num, '(RFC822 UID)'), the status and raw-bytes tests, and the
\* decoding of the message up to the computation of mid.
Fetch(r) ==
  /\ run[r].pc = "fetch"
  /\ \E o \in Outcomes("fetch", run[r].account, Folder(run[r]), Num(run[r]), FetchAnswers) :
       \/ /\ o = "OK"
          /\ run' = [run EXCEPT ![r] = [@ EXCEPT !.pc = "find",
                                         !.cur = DecodedDoc(run[r].account, Folder(run[r]), Num(run[r]))]]
       \/ /\ o \in { "NO", "empty" }
          /\ run' = [run EXCEPT ![r] = AdvanceMsg(@)]
       \/ /\ o = "raise"
          /\ run' = [run EXCEPT ![r] = Escapes(@, "FETCH raised")]
  /\ UNCHANGED << store, mailbox, env, subj, body, cat, mime, bodies, api >>

\* Find that refreshes the stored record with the document just built.
Find_Refresh(r) ==
  /\ run[r].pc = "find"
  /\ \/ /\ Existing(store, run[r].account, run[r].cur.message_id)
        /\ run' = [run EXCEPT ![r] = AdvanceMsg(@)]
        /\ store' = [i \in 1..Len(store) |->
                       IF /\ store[i].message_id = run[r].cur.message_id
                          /\ store[i].account_id = run[r].account
                         THEN run[r].cur ELSE store[i]]
     \/ /\ ~Existing(store, run[r].account, run[r].cur.message_id)
        /\ run' = [run EXCEPT ![r] = [@ EXCEPT !.pc = "insert"]]
        /\ UNCHANGED store
  /\ UNCHANGED << mailbox, env, subj, body, cat, mime, bodies, api >>

\* existing = find_one(...); if existing: continue
Find(r) ==
  /\ run[r].pc = "find"
  /\ \/ /\ Existing(store, run[r].account, run[r].cur.message_id)
        /\ run' = [run EXCEPT ![r] = AdvanceMsg(@)]
     \/ /\ ~Existing(store, run[r].account, run[r].cur.message_id)
        /\ run' = [run EXCEPT ![r] = [@ EXCEPT !.pc = "insert"]]
  /\ UNCHANGED << store, mailbox, env, subj, body, cat, mime, bodies, api >>

\* Insert without the increment of the counter.
Insert_Uncounted(r) ==
  /\ run[r].pc = "insert"
  /\ store' = Append(store, run[r].cur)
  /\ run' = [run EXCEPT ![r] = AdvanceMsg(@)]
  /\ UNCHANGED << mailbox, env, subj, body, cat, mime, bodies, api >>

\* insert_one(doc); inserted += 1
Insert(r) ==
  /\ run[r].pc = "insert"
  /\ store' = Append(store, run[r].cur)
  /\ run' = [run EXCEPT ![r] = AdvanceMsg([@ EXCEPT !.inserted = @ + 1])]
  /\ UNCHANGED << mailbox, env, subj, body, cat, mime, bodies, api >>

\* M.logout() after the folder loop, its failure swallowed, and the return.
\* The client closes the socket only when the LOGOUT command did not raise.
Logout(r) ==
  /\ run[r].pc = "logout"
  /\ \E o \in Outcomes("logout", run[r].account, <<>>, 0, LogoutAnswers) :
       run' = [run EXCEPT ![r] = [@ EXCEPT !.pc = "done", !.closes = @ + 1, !.imap = "LOGOUT",
                                           !.conn = IF o = "OK" THEN "closed" ELSE "open",
                                           !.result = [status |-> 200, inserted |-> run[r].inserted,
                                                       detail |-> ""]]]
  /\ UNCHANGED << store, mailbox, env, subj, body, cat, mime, bodies, api >>

\* FailLogout with the records of the failed run taken out of the store.
FailLogout_Rollback(r) ==
  /\ run[r].pc = "fail_logout"
  /\ \E o \in Outcomes("logout", run[r].account, <<>>, 0, LogoutAnswers) :
       run' = [run EXCEPT ![r] = [@ EXCEPT !.pc = "done", !.closes = @ + 1, !.imap = "LOGOUT",
                                           !.conn = IF o = "OK" THEN "closed" ELSE "open",
                                           !.result = [status |-> 500, inserted |-> 0,
                                                       detail |-> run[r].exc]]]
  /\ store' = SubSeq(store, 1, Len(store) - run[r].inserted)
  /\ UNCHANGED << mailbox, env, subj, body, cat, mime, bodies, api >>

\* FailLogout without the logout call: the failure is raised at once.
FailLogout_NoClose(r) ==
  /\ run[r].pc = "fail_logout"
  /\ run' = [run EXCEPT ![r] = [@ EXCEPT !.pc = "done",
                                         !.result = [status |-> 500, inserted |-> 0,
                                                     detail |-> run[r].exc]]]
  /\ UNCHANGED << store, mailbox, env, subj, body, cat, mime, bodies, api >>

\* The outer except clause: M.logout(), its failure swallowed, and the raise.
FailLogout(r) ==
  /\ run[r].pc = "fail_logout"
  /\ \E o \in Outcomes("logout", run[r].account, <<>>, 0, LogoutAnswers) :
       run' = [run EXCEPT ![r] = [@ EXCEPT !.pc = "done", !.closes = @ + 1, !.imap = "LOGOUT",
                                           !.conn = IF o = "OK" THEN "closed" ELSE "open",
                                           !.result = [status |-> 500, inserted |-> 0,
                                                       detail |-> run[r].exc]]]
  /\ UNCHANGED << store, mailbox, env, subj, body, cat, mime, bodies, api >>

\* The background task is over: its slot is free for the next call.
Return(r) ==
  /\ run[r].pc = "done"
  /\ run' = [run EXCEPT ![r] = IdleRun]
  /\ UNCHANGED << store, mailbox, env, subj, body, cat, mime, bodies, api >>

\* One step of the run in slot r.
SyncStep(r) ==
  \/ Connect(r)
  \/ Select(r)
  \/ Search(r)
  \/ Fetch(r)
  \/ Find(r)
  \/ Insert(r)
  \/ Logout(r)
  \/ FailLogout(r)

\* --------------------------------------------------------- specifications

ReqFolderOptions ==
  { <<>>, << F_INBOX, F_Sent >>, << F_Sent, F_INBOX >>, << F_INBOX, F_INBOX >> }

DayWindows == { 7, 30 }

InitSync ==
  /\ store = <<>>
  /\ mailbox = InitMailbox
  /\ run = [r \in Runs |-> IdleRun]
  /\ subj = <<>>
  /\ body = <<>>
  /\ cat = "unset"
  /\ InitRest

\* Sync runs one after another, in any number, the server answering freely.
Init == InitSync /\ env = FreeEnv

Next ==
  \/ \E a \in AccountIds, fs \in ReqFolderOptions, d \in DayWindows :
       TriggerSync("r1", a, fs, d)
  \/ SyncStep("r1")
  \/ Return("r1")

Spec == Init /\ [][Next]_vars

\* The same sync request twice in sequence (r1, then r2 with r1's account,
\* folders and day window) against a server that answers each call the same
\* way both times.
InitTwice == InitSync /\ env \in ScriptedEnvs

\* trigger_sync again with the request of the finished run q.
Resync(r, q) ==
  /\ run[q].pc = "done"
  /\ TriggerSync(r, run[q].account, run[q].req_folders, run[q].days)

NextTwice ==
  \/ \E a \in AccountIds, fs \in ReqFolderOptions, d \in DayWindows :
       TriggerSync("r1", a, fs, d)
  \/ SyncStep("r1")
  \/ Resync("r2", "r1")
  \/ SyncStep("r2")

SpecTwice == InitTwice /\ [][NextTwice]_vars

\* Two sync runs that overlap in time: both are background tasks, each step
\* of one may fall between any two steps of the other.
ConcFolderOptions == { <<>>, << F_INBOX, F_Sent >> }

NextConc ==
  \/ \E r \in Runs, a \in AccountIds, fs \in ConcFolderOptions, d \in DayWindows :
       TriggerSync(r, a, fs, d)
  \/ \E r \in Runs : SyncStep(r)

SpecConc == Init /\ [][NextConc]_vars

\* The classifier alone, on subjects and bodies put together from phrases.
T_Not == <<"n","o","t">>

Phrases ==
  { T_Empty, T_Hello, T_OOO, T_Looong, T_Unsub, T_NotInt, T_Interested,
    T_Meeting, T_Calendly, T_BookTime, T_Schedule, T_Slot, T_Buy, T_Lottery,
    T_IntCal, T_Not }

Bodies == { p \o <<" ">> \o q : p \in Phrases, q \in Phrases }

InitClassify ==
  /\ store = <<>>
  /\ mailbox = InitMailbox
  /\ env = FreeEnv
  /\ run = [r \in Runs |-> IdleRun]
  /\ subj \in Phrases
  /\ body \in Bodies
  /\ cat = "unset"
  /\ InitRest

Classify ==
  /\ cat = "unset"
  /\ cat' = categorize_email(subj, body)
  /\ UNCHANGED << store, mailbox, env, run, subj, body, mime, bodies, api >>

NextClassify == Classify

SpecClassify == InitClassify /\ [][NextClassify]_vars

\* ------------------------------------------------------------ properties

\* The number of stored documents with dedup key (a, mid).
CountKey(st, a, mid) ==
  Cardinality({ i \in 1..Len(st) : st[i].account_id = a /\ st[i].message_id = mid })

\* The steps of the run in slot r.
Steps(r) == run'[r] # run[r]

\* The message of the mailbox the run in slot r has fetched.
FetchedMsg(r) == mailbox[run[r].account][Folder(run[r])][Num(run[r])]

\* C1: after any sequence of sync runs executed one after another (any
\* accounts, folder lists, skipped folders or messages, failed runs) no two
\* stored documents have the same (account_id, message_id).
C1_DedupInvariant ==
  \A i, j \in 1..Len(store) :
    i # j => ~(/\ store[i].account_id = store[j].account_id
               /\ store[i].message_id = store[j].message_id)

\* C1 witness: a run has fetched a message whose key is already stored, from
\* another folder than the one the stored document came from.
C1_Witness ==
  \E i \in 1..Len(store) :
    /\ run["r1"].pc = "find"
    /\ store[i].account_id = run["r1"].cur.account_id
    /\ store[i].message_id = run["r1"].cur.message_id
    /\ store[i].folder # run["r1"].cur.folder

\* C2 (the claim as stated): when the same sync request is run twice in
\* sequence against a server that answers alike both times, the second run
\* returns an inserted count of 0 and leaves the store as the first run left it.
C2_SecondRunReturnsZero ==
  (run["r2"].pc = "done" /\ run["r1"].result.status # 400)
    => /\ run["r2"].result = [status |-> 200, inserted |-> 0, detail |-> ""]
       /\ Len(store) = run["r1"].inserted

\* C3: a run that has fetched a message carrying a Message-ID header either
\* skips it, when its own account already holds one document with that
\* Message-ID (whatever folder it came from), leaving store and counter
\* untouched, or inserts and counts it, when its own account holds none
\* (whatever other accounts hold); either way exactly one document of the
\* account then has that Message-ID.
C3_DedupKeyStability ==
  [][\A r \in Runs :
       (Steps(r) /\ run[r].pc \in {"find", "insert"} /\ run'[r].pc \notin {"find", "insert"}
          /\ FetchedMsg(r).header # <<>>)
       => LET a == run[r].account
              h == FetchedMsg(r).header
          IN  /\ CountKey(store', a, h) = 1
              /\ run[r].pc = "find"
                   => (CountKey(store, a, h) = 1 /\ store' = store
                       /\ run'[r].inserted = run[r].inserted)
              /\ run[r].pc = "insert"
                   => (CountKey(store, a, h) = 0 /\ Len(store') = Len(store) + 1
                       /\ run'[r].inserted = run[r].inserted + 1)]_vars

\* C3 witness: both accounts hold a document with Message-ID <x>, account a1
\* only one although <x> is in both its folders, and a run of a1 has just
\* fetched <x> from the other folder.
C3_Witness ==
  /\ CountKey(store, "a1", H_X) = 1
  /\ CountKey(store, "a2", H_X) = 1
  /\ run["r1"].pc = "find"
  /\ run["r1"].account = "a1"
  /\ run["r1"].cur.message_id = H_X
  /\ \E i \in 1..Len(store) :
       /\ store[i].account_id = "a1"
       /\ store[i].message_id = H_X
       /\ store[i].folder # run["r1"].cur.folder

\* C4: a run that has logged in attempts the logout exactly once before it
\* returns or raises, never earlier, and its outcome is the inserted count on
\* the normal path and the escaped exception on the failure path, whether the
\* logout itself succeeded or raised.
C4_SessionClosedOnEveryPath ==
  \A r \in Runs :
    /\ (run[r].pc = "done" /\ run[r].result.status # 400)
         => /\ run[r].closes = 1
            /\ run[r].result =
                 IF run[r].exc = ""
                   THEN [status |-> 200, inserted |-> run[r].inserted, detail |-> ""]
                   ELSE [status |-> 500, inserted |-> 0, detail |-> run[r].exc]
    /\ run[r].pc \notin {"done", "idle"} => run[r].closes = 0

\* C4 witness: a whole-run failure after an insert, whose logout raised too.
C4_Witness ==
  /\ run["r1"].pc = "done"
  /\ run["r1"].result.status = 500
  /\ run["r1"].inserted > 0
  /\ run["r1"].closes = 1
  /\ run["r1"].conn = "open"

\* C5 (the claim as stated): a folder whose selection failed, by an error or
\* by a non-OK status, is skipped and the run goes on: no run ends as a
\* whole-run failure because a selection failed.
C5_SelectFailureSkipsFolder ==
  \A r \in Runs :
    (run[r].pc = "done" /\ run[r].result.status = 500)
      => run[r].result.detail # "command SEARCH illegal in state AUTH"

\* C6 (the claim as stated): a failed fetch of one handle, by an error, a
\* non-OK status or missing bytes, skips that message only: no run ends as a
\* whole-run failure because a fetch failed.
C6_FetchFailureSkipsMessage ==
  \A r \in Runs :
    (run[r].pc = "done" /\ run[r].result.status = 500)
      => run[r].result.detail # "FETCH raised"

\* C7: a failed connect or login ends the run at once with the login error,
\* after exactly one connection attempt, with no folder touched, no logout
\* and the store as it was.
C7_LoginFailureFatal ==
  [][\A r \in Runs :
       (Steps(r) /\ run[r].pc = "connect" /\ run'[r].imap # "AUTH")
       => /\ run'[r].pc = "done"
          /\ run'[r].result = [status |-> 400, inserted |-> 0, detail |-> "IMAP login failed"]
          /\ run'[r].attempts = 1
          /\ run'[r].fi = 0
          /\ run'[r].closes = 0
          /\ store' = store]_vars

\* C7 witness: a run ended by a login failure while the store holds the
\* documents of an earlier run.
C7_Witness ==
  /\ run["r1"].pc = "done"
  /\ run["r1"].result.status = 400
  /\ run["r1"].attempts = 1
  /\ Len(store) > 0

RECURSIVE SumInserted(_)
\* The sum of the inserted counters of the runs in S.
SumInserted(S) ==
  IF S = {} THEN 0
  ELSE LET r == CHOOSE x \in S : TRUE IN run[r].inserted + SumInserted(S \ {r})

\* C8: with two overlapping runs every stored document has been counted by
\* the run that inserted it, and a key is stored at most once per run of its
\* account: a doubly stored key comes from two runs of the same account, both
\* counting it.
C8_RaceAccounting ==
  /\ Len(store) = SumInserted(Runs)
  /\ \A i \in 1..Len(store) :
       CountKey(store, store[i].account_id, store[i].message_id)
         <= Cardinality({ r \in Runs : run[r].account = store[i].account_id })

\* C8 witness: two runs of account a1 over its INBOX have both returned an
\* inserted count of 2, and each of the two keys is stored twice.
C8_Witness ==
  /\ \A r \in Runs :
       /\ run[r].account = "a1"
       /\ run[r].target_folders = << F_INBOX >>
       /\ run[r].result = [status |-> 200, inserted |-> 2, detail |-> ""]
  /\ Len(store) = 4
  /\ \A i \in 1..Len(store) : CountKey(store, "a1", store[i].message_id) = 2

\* The documents of account a, in insertion order.
StoreOf(st, a) == SelectSeq(st, LAMBDA d : d.account_id = a)

\* C9: with two overlapping runs of different accounts no key is stored
\* twice, the documents of a run's account are exactly those the run itself
\* has inserted and counted, and the run skips a fetched message exactly when
\* it has itself stored that key before: what it does alone.
C9_DifferentAccountsIndependent ==
  [][(run'["r1"].account # run'["r2"].account)
       => /\ \A i, j \in 1..Len(store') :
               i # j => ~(/\ store'[i].account_id = store'[j].account_id
                          /\ store'[i].message_id = store'[j].message_id)
          /\ \A r \in Runs :
               /\ run'[r].pc # "idle"
                    => Len(StoreOf(store', run'[r].account)) = run'[r].inserted
               /\ (Steps(r) /\ run[r].pc = "find")
                    => (run'[r].pc = "insert"
                          <=> CountKey(StoreOf(store, run[r].account),
                                       run[r].account, run[r].cur.message_id) = 0)]_vars

\* C9 witness: while the run of a1 is still in its folder loop, the run of
\* a2 has fetched <x>, which a1 has already stored.
C9_Witness ==
  /\ run["r1"].account = "a1"
  /\ run["r2"].account = "a2"
  /\ run["r1"].pc \in {"select", "search", "fetch", "find", "insert"}
  /\ run["r2"].pc = "find"
  /\ run["r2"].cur.message_id = H_X
  /\ CountKey(store, "a1", H_X) = 1

\* The rules in priority order: label, the terms one of which must occur,
\* and the terms one of which must occur as well (none: no second condition).
RuleTable ==
  << [label |-> "Out of Office", any |-> OutOfOfficeTerms, also |-> <<>>],
     [label |-> "Not Interested", any |-> NotInterestedTerms, also |-> <<>>],
     [label |-> "Meeting Booked", any |-> MeetingIntentTerms, also |-> SchedulingArtifactTerms],
     [label |-> "Interested", any |-> InterestedTerms, also |-> <<>>],
     [label |-> "Spam", any |-> SpamTerms, also |-> <<>>] >>

RuleMatches(k, text) ==
  /\ AnyIn(text, RuleTable[k].any)
  /\ Len(RuleTable[k].also) = 0 \/ AnyIn(text, RuleTable[k].also)

\* The label of the first rule that matches, NoCategory when none does.
FirstMatch(text) ==
  IF \E k \in 1..Len(RuleTable) : RuleMatches(k, text)
    THEN RuleTable[CHOOSE k \in 1..Len(RuleTable) :
                     /\ RuleMatches(k, text)
                     /\ \A l \in 1..(k - 1) : ~RuleMatches(l, text)].label
    ELSE NoCategory

T_unsubscribe == <<"u","n","s","u","b","s","c","r","i","b","e">>

T_interested == <<"i","n","t","e","r","e","s","t","e","d">>

\* C10 (the claim as stated): the result is the label of the first matching
\* rule, null when none matches; every text with both "unsubscribe" and
\* "interested" is "Not Interested"; no text with a meeting-intent term and
\* without a scheduling-artifact term is "Meeting Booked".
C10_Original ==
  cat # "unset" =>
    LET text == Lower(subj \o TextSeparator \o body) IN
    /\ cat = FirstMatch(text)
    /\ (Contains(text, T_unsubscribe) /\ Contains(text, T_interested))
         => cat = "Not Interested"
    /\ (AnyIn(text, MeetingIntentTerms) /\ ~AnyIn(text, SchedulingArtifactTerms))
         => cat # "Meeting Booked"

\* C10 (amended): as stated, but a text with both "unsubscribe" and
\* "interested" is "Not Interested" only when it holds no Out of Office term.
C10_ClassifierPriority ==
  cat # "unset" =>
    LET text == Lower(subj \o TextSeparator \o body) IN
    /\ cat = FirstMatch(text)
    /\ (Contains(text, T_unsubscribe) /\ Contains(text, T_interested)
          /\ ~AnyIn(text, OutOfOfficeTerms))
         => cat = "Not Interested"
    /\ (AnyIn(text, MeetingIntentTerms) /\ ~AnyIn(text, SchedulingArtifactTerms))
         => cat # "Meeting Booked"

\* C10 witness: a text with "unsubscribe" and "interested" classified
\* "Not Interested".
C10_Witness ==
  /\ cat = "Not Interested"
  /\ Contains(Lower(subj \o TextSeparator \o body), T_unsubscribe)
  /\ Contains(Lower(subj \o TextSeparator \o body), T_interested)

\* C15 (the claim as stated): a failed search of a selected folder, by an
\* error or by a non-OK status, skips that folder only: no run ends as a
\* whole-run failure because a search failed.
C15_SearchFailureSkipsFolder ==
  \A r \in Runs :
    (run[r].pc = "done" /\ run[r].result.status = 500)
      => run[r].result.detail # "SEARCH raised"

\* C20 (the claim as stated): no run ends with a connection it opened and
\* never tried to close; in particular a rejected login closes the
\* connection before the login error is reported.
C20_NoConnectionLeak ==
  \A r \in Runs :
    run[r].pc = "done" => ~(run[r].conn = "open" /\ run[r].closes = 0)

\* ---------------------------------------------------------------------
\* extract_body: the text and HTML bodies of a parsed message.

TextPlain == "text/plain"

TextHtml == "text/html"

ImagePng == "image/png"

\* str(part.get("Content-Disposition")) of a part without the header.
DispNone == << "N", "o", "n", "e" >>

DispAttachment == << "a", "t", "t", "a", "c", "h", "m", "e", "n", "t" >>

AttachmentWord == << "a", "t", "t", "a", "c", "h", "m", "e", "n", "t" >>

\* The payload bytes of the parts: 65 and 66 are ASCII letters, 255 is not
\* a valid UTF-8 byte.
Payloads == { <<>>, << 65 >>, << 66 >>, << 255 >> }

ByteChar(b) == IF b = 65 THEN "A" ELSE "B"

\* safe_decode: bytes.decode(errors="ignore") drops the invalid bytes.
RECURSIVE safe_decode(_)
safe_decode(value) ==
  IF value = <<>> THEN <<>>
  ELSE IF Head(value) >= 128 THEN safe_decode(Tail(value))
  ELSE << ByteChar(Head(value)) >> \o safe_decode(Tail(value))

Part(c, d, p) == [ctype |-> c, disp |-> d, payload |-> p]

\* The leaf parts a message is made of.
PartSet ==
  { Part(c, d, p) : c \in {TextPlain, TextHtml},
                    d \in {DispNone, DispAttachment}, p \in Payloads }
    \cup { Part(ImagePng, DispAttachment, << 65 >>) }

\* The longest multipart message considered.
MaxParts == 3

Multiparts ==
  UNION { [1..n -> PartSet] : n \in 1..MaxParts }

\* A variant of the loop in which the first matching part wins.
WalkStep_FirstWins(part, acc) ==
  IF part.ctype = TextPlain /\ ~Contains(part.disp, AttachmentWord)
  THEN IF part.payload # <<>> /\ acc.body_text.isNone
       THEN [acc EXCEPT !.body_text = Some(safe_decode(part.payload))]
       ELSE acc
  ELSE IF part.ctype = TextHtml /\ ~Contains(part.disp, AttachmentWord)
  THEN IF part.payload # <<>> /\ acc.body_html.isNone
       THEN [acc EXCEPT !.body_html = Some(safe_decode(part.payload))]
       ELSE acc
  ELSE acc

\* One turn of the loop over msg.walk(): the part at position i updates
\* the bodies found so far.
WalkStep(part, acc) ==
  IF part.ctype = TextPlain /\ ~Contains(part.disp, AttachmentWord)
  THEN IF part.payload # <<>>
       THEN [acc EXCEPT !.body_text = Some(safe_decode(part.payload))]
       ELSE acc
  ELSE IF part.ctype = TextHtml /\ ~Contains(part.disp, AttachmentWord)
  THEN IF part.payload # <<>>
       THEN [acc EXCEPT !.body_html = Some(safe_decode(part.payload))]
       ELSE acc
  ELSE acc

RECURSIVE Walk(_, _)
Walk(parts, acc) ==
  IF parts = <<>> THEN acc
  ELSE Walk(Tail(parts), WalkStep(Head(parts), acc))

\* extract_body: the root of a multipart message is a container that
\* matches neither branch, so the walk is over its leaf parts; a message
\* that is not multipart is its single part, whatever its disposition.
extract_body(msg) ==
  LET start == [body_text |-> None, body_html |-> None]
      part  == msg.parts[1]
  IN  IF msg.multipart THEN Walk(msg.parts, start)
      ELSE IF part.payload = <<>> THEN start
      ELSE IF part.ctype = TextHtml
      THEN [start EXCEPT !.body_html = Some(safe_decode(part.payload))]
      ELSE [start EXCEPT !.body_text = Some(safe_decode(part.payload))]

\* The messages given to extract_body: multipart ones of up to MaxParts
\* parts, and single-part ones.
InitBody ==
  /\ store = <<>>
  /\ mailbox = [a \in AccountIds |-> [f \in FolderNames |-> <<>>]]
  /\ env = FreeEnv
  /\ run = [r \in Runs |-> IdleRun]
  /\ subj = <<>>
  /\ body = <<>>
  /\ cat = "unset"
  /\ mime \in { [multipart |-> TRUE, parts |-> ps] : ps \in Multiparts }
              \cup { [multipart |-> FALSE, parts |-> << p >>] : p \in PartSet }
  /\ bodies = NoBodies
  /\ api = NoApi

ExtractBody ==
  /\ ~bodies.done
  /\ bodies' = [done |-> TRUE,
                body_text |-> extract_body(mime).body_text,
                body_html |-> extract_body(mime).body_html]
  /\ UNCHANGED << store, mailbox, env, run, subj, body, cat, mime, api >>

NextBody == ExtractBody

SpecBody == InitBody /\ [][NextBody]_vars

\* The positions of the parts of the given type that are not attachments.
BodyParts(parts, ctype) ==
  { i \in 1..Len(parts) :
      parts[i].ctype = ctype /\ ~Contains(parts[i].disp, AttachmentWord) }

Last(S) == CHOOSE i \in S : \A j \in S : j <= i

\* The content of the last part among the given positions, None when there
\* is no such part.
LastContent(parts, S) ==
  IF S = {} THEN None ELSE Some(safe_decode(parts[Last(S)].payload))

NonEmpty(parts, S) == { i \in S : parts[i].payload # <<>> }

\* The body equals the given content; an empty content may be reported as an
\* absent body.
IsContent(b, content) ==
  \/ b = content
  \/ content = Some(<<>>) /\ b = None

\* C17 (the claim as stated): for a multipart message the body text is the
\* content of the last text/plain part that is not an attachment, and the
\* body HTML that of the last such text/html part, also when that part's
\* payload is empty.
C17_Original ==
  (bodies.done /\ mime.multipart) =>
    /\ IsContent(bodies.body_text,
                 LastContent(mime.parts, BodyParts(mime.parts, TextPlain)))
    /\ IsContent(bodies.body_html,
                 LastContent(mime.parts, BodyParts(mime.parts, TextHtml)))

\* C17 (amended): for a multipart message the body text is the content of
\* the last text/plain part that is not an attachment and whose payload is
\* not empty, and the body HTML that of the last such text/html part; parts
\* with an empty payload are passed over, and a body is absent when no such
\* part exists.
C17_LastNonEmptyWins ==
  (bodies.done /\ mime.multipart) =>
    /\ bodies.body_text =
         LastContent(mime.parts, NonEmpty(mime.parts, BodyParts(mime.parts, TextPlain)))
    /\ bodies.body_html =
         LastContent(mime.parts, NonEmpty(mime.parts, BodyParts(mime.parts, TextHtml)))

\* Two text/plain bodies of different content: the later one is the result.
C17_Witness ==
  /\ bodies.done /\ mime.multipart /\ Len(mime.parts) = 3
  /\ mime.parts[1] = Part(TextPlain, DispNone, << 65 >>)
  /\ mime.parts[2] = Part(TextHtml, DispNone, << 66 >>)
  /\ mime.parts[3] = Part(TextPlain, DispNone, << 66 >>)
  /\ bodies.body_text = Some(<< "B" >>)
  /\ bodies.body_html = Some(<< "B" >>)

\* ---------------------------------------------------------------------
\* A folder larger than the cap: the INBOX of a1 holds Cap + 2 recent
\* messages without a Message-ID header, its Sent folder a single message.

BigMailbox ==
  [a \in AccountIds |->
    [f \in FolderNames |->
      IF a = "a1" /\ f = F_INBOX
        THEN [i \in 1..(Cap + 2) |-> Msg(H_None, 1, "Hello", "Hello")]
      ELSE IF a = "a1" THEN << Msg(H_X, 1, "Hello", "Hello") >>
      ELSE <<>>]]

\* The server answers every call OK, or every call but the SEARCH of the
\* Sent folder, which raises.
CapEnvs ==
  { [scripted |-> TRUE, faults |-> {}],
    [scripted |-> TRUE, faults |-> { Fault("search", "a1", F_Sent, 0, "raise") }] }

CapFolderOptions == { <<>>, << F_INBOX, F_Sent >>, << F_Sent, F_INBOX >> }

InitCap ==
  /\ store = <<>>
  /\ mailbox = BigMailbox
  /\ env \in CapEnvs
  /\ run = [r \in Runs |-> IdleRun]
  /\ subj = <<>>
  /\ body = <<>>
  /\ cat = "unset"
  /\ InitRest

\* One sync run of account a1 over the big mailbox.
NextCap ==
  \/ \E fs \in CapFolderOptions : TriggerSync("r1", "a1", fs, 7)
  \/ SyncStep("r1")

SpecCap == InitCap /\ [][NextCap]_vars

\* C16: in each folder a run works on the last Cap handles of the search
\* result and no others, in search-result order (on all of them when there
\* are at most Cap), so that no record is ever made for an earlier handle,
\* and it inserts at most Cap records per folder.
C16_PerFolderCap ==
  /\ \A r \in Runs :
       run[r].pc \in { "fetch", "find", "insert" } =>
         LET all  == SearchResult(run[r].account, Folder(run[r]), run[r].days)
             skip == IF Len(all) > Cap THEN Len(all) - Cap ELSE 0
         IN  /\ Len(run[r].id_list) = Len(all) - skip
             /\ \A i \in 1..Len(run[r].id_list) : run[r].id_list[i] = all[skip + i]
             /\ Num(run[r]) > skip
             /\ run[r].ni <= Cap
             /\ run[r].inserted <= Cap * (run[r].fi - 1) + (run[r].ni - 1)
  /\ \A r \in Runs :
       run[r].pc = "done" =>
         run[r].result.inserted <= Cap * Len(run[r].target_folders)
  /\ \A a \in AccountIds, f \in FolderNames :
       \A n \in 1..(Len(mailbox[a][f]) - Cap) :
         ~Existing(store, a, SynthesizedId(n, f, AccountDoc(a).username))

\* A run over the INBOX of Cap + 2 messages skips the handles 1 and 2: its
\* list holds Cap handles, the record of handle 3 is the first one made and
\* the run has gone on to handle 4.
C16_Witness ==
  /\ run["r1"].pc = "fetch"
  /\ Folder(run["r1"]) = F_INBOX
  /\ Len(SearchResult("a1", F_INBOX, 7)) = Cap + 2
  /\ Len(run["r1"].id_list) = Cap
  /\ Num(run["r1"]) = 4
  /\ run["r1"].inserted = 1
  /\ Len(store) = 1
  /\ store[1].message_id = SynthesizedId(3, F_INBOX, AccountDoc("a1").username)

\* ---------------------------------------------------------------------
\* A mailbox that changes between the runs.  The INBOX of a1 holds the
\* messages of the end-to-end scenario: a "not interested" one, the
\* "interested" + "calendly" one, one without a classifier match and one
\* older than the window; the first two have no Message-ID header.  Its Sent
\* folder holds a message with "interested", "calendly" and "meeting".

ChangeMailbox ==
  [a \in AccountIds |->
    [f \in FolderNames |->
      IF a = "a1" /\ f = F_INBOX
        THEN << Msg(H_None, 1, "Hello", "Unsubscribe"),
                Msg(H_None, 2, "Hello", "interested, see calendly"),
                Msg(H_X, 3, "Hello", "Hello"),
                Msg(H_Y, 30, "meeting", "slot") >>
      ELSE IF a = "a1"
        THEN << Msg(H_None, 1, "meeting", "interested, see calendly") >>
      ELSE <<>>]]

\* The most messages removed from the mailbox.
MaxExpunges == 1

RECURSIVE CountMessages(_, _)
CountMessages(mb, S) ==
  IF S = {} THEN 0
  ELSE LET x == CHOOSE y \in S : TRUE
       IN  Len(mb[x[1]][x[2]]) + CountMessages(mb, S \ {x})

Expunged == CountMessages(ChangeMailbox, AccountIds \X FolderNames)
              - CountMessages(mailbox, AccountIds \X FolderNames)

RemoveAt(s, i) == SubSeq(s, 1, i - 1) \o SubSeq(s, i + 1, Len(s))

\* The mail server removes the i-th message of a folder while no run is
\* under way: the messages after it move down by one sequence number.
Expunge(a, f, i) ==
  /\ \A r \in Runs : run[r].pc = "idle"
  /\ Expunged < MaxExpunges
  /\ i \in 1..Len(mailbox[a][f])
  /\ mailbox' = [mailbox EXCEPT ![a][f] = RemoveAt(@, i)]
  /\ UNCHANGED << store, env, run, subj, body, cat, mime, bodies, api >>

ChangeFolderOptions == { <<>>, << F_INBOX, F_Sent >> }

InitChange ==
  /\ store = <<>>
  /\ mailbox = ChangeMailbox
  /\ env = FreeEnv
  /\ run = [r \in Runs |-> IdleRun]
  /\ subj = <<>>
  /\ body = <<>>
  /\ cat = "unset"
  /\ InitRest

\* Sync runs of account a1 one after another, the mailbox changing between
\* them.
NextChange ==
  \/ \E fs \in ChangeFolderOptions : TriggerSync("r1", "a1", fs, 7)
  \/ SyncStep("r1")
  \/ Return("r1")
  \/ \E f \in FolderNames, i \in 1..4 : Expunge("a1", f, i)

SpecChange == InitChange /\ [][NextChange]_vars

\* The stored records of the message just fetched by run r: same account,
\* same key, same content.
SameMessageStored(r) ==
  \E i \in 1..Len(store) :
    /\ store[i].account_id = run[r].account
    /\ store[i].message_id = run[r].cur.message_id
    /\ store[i].subject = run[r].cur.subject
    /\ store[i].body_text = run[r].cur.body_text

\* C19 (the claim as stated): also when the mailbox changes between the
\* runs, a fetched message is skipped as already stored only when that same
\* message was stored before.
C19_Original ==
  \A r \in Runs :
    (run[r].pc = "find" /\ Existing(store, run[r].account, run[r].cur.message_id))
      => SameMessageStored(r)

\* C19 (amended): while no message has been removed from the mailbox, so
\* that the sequence numbers are the ones of the first run, a fetched
\* message is skipped as already stored only when that same message was
\* stored before, and the records with the same key are records of one
\* message.
C19_StableNumbersNoCollapse ==
  mailbox = ChangeMailbox =>
    /\ \A r \in Runs :
         (run[r].pc = "find" /\ Existing(store, run[r].account, run[r].cur.message_id))
           => SameMessageStored(r)
    /\ \A i, j \in 1..Len(store) :
         (store[i].account_id = store[j].account_id
            /\ store[i].message_id = store[j].message_id)
           => (store[i].subject = store[j].subject
                 /\ store[i].body_text = store[j].body_text)

\* Both messages without Message-ID of the INBOX have their own record, and
\* a later run over the unchanged mailbox meets the second one again.
C19_Witness ==
  /\ mailbox = ChangeMailbox
  /\ run["r1"].pc = "find"
  /\ run["r1"].cur.message_id = SynthesizedId(2, F_INBOX, AccountDoc("a1").username)
  /\ SameMessageStored("r1")
  /\ \E i \in 1..Len(store) :
       /\ store[i].message_id = SynthesizedId(1, F_INBOX, AccountDoc("a1").username)
       /\ store[i].body_text = "Unsubscribe"

\* The classifier text of a stored record.
RecordText(d) == ClassifierText(Chars(d.subject), Chars(d.body_text))

\* The record is one of a message like the scenario's: its text matches
\* "interested" and "calendly" and holds no Out-of-Office or Not-Interested
\* term.
ScenarioRecord(d) ==
  /\ Contains(RecordText(d), T_interested)
  /\ Contains(RecordText(d), Lower(T_Calendly))
  /\ ~AnyIn(RecordText(d), OutOfOfficeTerms)
  /\ ~AnyIn(RecordText(d), NotInterestedTerms)

\* C11 (the claim as stated): a synced message matching "interested" and
\* "calendly", with no Out-of-Office or Not-Interested term, is stored with
\* category "Meeting Booked".
C11_Original ==
  \A i \in 1..Len(store) :
    ScenarioRecord(store[i]) => store[i].ai_category = "Meeting Booked"

\* C11 (amended): a synced message matching "interested" and "calendly",
\* with no Out-of-Office or Not-Interested term, is stored with category
\* "Meeting Booked" when its text also holds a meeting-intent term, and with
\* category "Interested" when it holds none.
C11_ScenarioCategory ==
  \A i \in 1..Len(store) :
    ScenarioRecord(store[i]) =>
      store[i].ai_category =
        IF AnyIn(RecordText(store[i]), MeetingIntentTerms)
          THEN "Meeting Booked" ELSE "Interested"

\* Both kinds of scenario message have been synced: the one of the INBOX,
\* without a meeting-intent term, and the one of Sent, with "meeting".
C11_Witness ==
  /\ \E i \in 1..Len(store) :
       /\ ScenarioRecord(store[i])
       /\ store[i].folder = F_INBOX
       /\ store[i].ai_category = "Interested"
  /\ \E i \in 1..Len(store) :
       /\ ScenarioRecord(store[i])
       /\ store[i].folder = F_Sent
       /\ store[i].ai_category = "Meeting Booked"

\* ---------------------------------------------------------------------
\* A failed run followed by a fault-free run of the same request.

FaultFreeEnv == [scripted |-> TRUE, faults |-> {}]

\* The run in slot r has ended as a whole-run failure, and from now on the
\* server answers every call OK.
ServerRecovers(r) ==
  /\ run[r].pc = "done"
  /\ run[r].result.status = 500
  /\ env = FreeEnv
  /\ env' = FaultFreeEnv
  /\ UNCHANGED << store, mailbox, run, subj, body, cat, mime, bodies, api >>

NextRecover ==
  \/ \E a \in AccountIds, fs \in ReqFolderOptions, d \in DayWindows :
       TriggerSync("r1", a, fs, d)
  \/ SyncStep("r1")
  \/ ServerRecovers("r1")
  \/ (env = FaultFreeEnv /\ Resync("r2", "r1"))
  \/ SyncStep("r2")

SpecRecover == Init /\ [][NextRecover]_vars

\* The (folder position, handle) pairs a fault-free run of the request of
\* run r works through.
Occurrences(r) ==
  LET tf == TargetFolders(run[r].req_folders) IN
  { << i, n >> \in (1..Len(tf)) \X (1..4) :
      \E k \in 1..Len(LastN(SearchResult(run[r].account, tf[i], run[r].days), Cap)) :
        LastN(SearchResult(run[r].account, tf[i], run[r].days), Cap)[k] = n }

\* The document a fault-free run builds at an occurrence.
DocAt(r, o) ==
  DecodedDoc(run[r].account, TargetFolders(run[r].req_folders)[o[1]], o[2])

Earlier(o, p) == o[1] < p[1] \/ (o[1] = p[1] /\ o[2] < p[2])

\* The records a single fault-free run of the request of run r makes in an
\* empty store: one per key, built where the key is met first.
FaultFreeRecords(r) ==
  { DocAt(r, o) : o \in { p \in Occurrences(r) :
      \A q \in Occurrences(r) :
        Earlier(q, p) => DocAt(r, q).message_id # DocAt(r, p).message_id } }

StoreRecords == { store[i] : i \in 1..Len(store) }

Keys(S) == { d.message_id : d \in S }

\* C18 (the claim as stated): after the failed run and the fault-free run
\* that follows it, the store equals what a single fault-free run would
\* have produced.
C18_Original ==
  (run["r1"].pc = "done" /\ run["r1"].result.status = 500 /\ run["r2"].pc = "done")
    => /\ StoreRecords = FaultFreeRecords("r1")
       /\ Len(store) = Cardinality(FaultFreeRecords("r1"))

\* The failed run's records are in the store, none counted in its answer.
FailedRunKeepsRecords ==
  (run["r1"].pc = "done" /\ run["r1"].result.status = 500 /\ run["r2"].pc = "idle")
    => /\ Len(store) = run["r1"].inserted
       /\ run["r1"].result.inserted = 0

\* The second run has stored what was missing, one record per key.
SecondRunCompletes ==
  (run["r1"].pc = "done" /\ run["r1"].result.status = 500 /\ run["r2"].pc = "done")
    => /\ run["r2"].result.status = 200
       /\ run["r2"].result.inserted = Len(store) - run["r1"].inserted
       /\ Keys(StoreRecords) = Keys(FaultFreeRecords("r1"))
       /\ Len(store) = Cardinality(Keys(StoreRecords))

\* No step removes or changes a stored record.
NoRollback ==
  /\ Len(store') >= Len(store)
  /\ \A i \in 1..Len(store) : store'[i] = store[i]

\* C18 (amended): the records a failed run inserted stay in the store
\* although its answer carries no count, and a following fault-free run of
\* the same request inserts exactly the messages whose key is not stored
\* yet, so that the store ends with one record for each key a single
\* fault-free run would have stored; a record made by the failed run keeps
\* the fields it was made with.
C18_PartialProgressRecovery ==
  /\ [](FailedRunKeepsRecords /\ SecondRunCompletes)
  /\ [][NoRollback]_vars

\* The failed run had stored one record, the second run has added the rest.
C18_Witness ==
  /\ run["r1"].pc = "done" /\ run["r1"].result.status = 500
  /\ run["r1"].inserted = 1
  /\ run["r2"].pc = "done"
  /\ run["r2"].result = [status |-> 200, inserted |-> 2, detail |-> ""]
  /\ Len(store) = 3

\* ---------------------------------------------------------------------
\* The request handlers: trigger_sync, list_emails, mark_interested and
\* suggest_reply.

HexCh == { "0","1","2","3","4","5","6","7","8","9","a","b","c","d","e","f" }

\* The length of the hex form of an ObjectId.
OidLen == 24

\* ObjectId(s) raises InvalidId unless s is OidLen hex digits.
ValidOid(s) == Len(s) = OidLen /\ \A i \in 1..Len(s) : s[i] \in HexCh

\* The hex form of the n-th identifier the store hands out.
Oid(n) == [i \in 1..OidLen |-> IF i = OidLen THEN DigitCh[n + 1] ELSE "0"]

\* An identifier that is no ObjectId.
BadId == << "a", "b", "c" >>

\* An ObjectId no document has.
UnknownId == Oid(9)

\* The _id of a stored message is the one of its position: find_one by _id.
FindById(st, id) ==
  IF \E i \in 1..Len(st) : Oid(i) = id
    THEN CHOOSE i \in 1..Len(st) : Oid(i) = id
    ELSE 0

\* The _id of an account document.
AccountOid(a) == IF a = "a1" THEN Oid(1) ELSE Oid(2)

Space == " "

RECURSIVE Split(_, _)
\* str.split(): the words of s, cur being the word under way.
Split(s, cur) ==
  IF s = <<>> THEN (IF cur = <<>> THEN {} ELSE { cur })
  ELSE IF Head(s) = Space
    THEN (IF cur = <<>> THEN {} ELSE { cur }) \cup Split(Tail(s), <<>>)
  ELSE Split(Tail(s), Append(cur, Head(s)))

Words(s) == Split(Lower(s), <<>>)

simple_score(query, doc) == Cardinality(Words(query) \cap Words(doc))

T_BookCal == <<"b","o","o","k"," ","a"," ","s","l","o","t"," ","a","t"," ","c","a","l",".","c","o","m">>

T_CalCom == <<"c","a","l",".","c","o","m">>

\* The agendadoc collection, in the order find() returns it.
AgendaDocs ==
  << [title |-> T_Hello, content |-> T_Lottery],
     [title |-> T_Meeting, content |-> T_BookCal] >>

RECURSIVE BestDoc(_, _, _, _)
\* The loop over docs: the first document of the strictly highest score.
BestDoc(query, i, best, best_score) ==
  IF i > Len(AgendaDocs) THEN best
  ELSE LET score == simple_score(query, AgendaDocs[i].title \o << Space >> \o AgendaDocs[i].content)
       IN  IF score > best_score THEN BestDoc(query, i + 1, i, score)
           ELSE BestDoc(query, i + 1, best, best_score)

\* The answer of a handler, with what it was asked.
Answer(call, id, hook, status) ==
  [call |-> call, id |-> id, hook |-> hook, status |-> status,
   slack |-> "none", webhook |-> "none", count |-> 0, best |-> 0, cta |-> FALSE]

DeliveryOutcomes == { "sent", "failed" }

\* trigger_sync for an identifier that is no ObjectId (the exception becomes
\* a 500 answer) or that no account has (404): no task is queued.
TriggerSyncRejected(id) ==
  /\ \A a \in AccountIds : AccountOid(a) # id
  /\ api' = Answer("trigger_sync", id, FALSE, IF ValidOid(id) THEN 404 ELSE 500)
  /\ UNCHANGED << store, mailbox, env, run, subj, body, cat, mime, bodies >>

\* list_emails with its account, folder and q filters, skip and limit.
ListEmails(account_id, folder, q, limit, skip) ==
  LET hits == { i \in 1..Len(store) :
                  /\ account_id # "" => store[i].account_id = account_id
                  /\ folder # <<>> => store[i].folder = folder
                  /\ q # <<>> => \/ Contains(Lower(Chars(store[i].subject)), Lower(q))
                                 \/ Contains(Lower(Chars(store[i].body_text)), Lower(q)) }
      lim  == IF limit < 1 THEN 1 ELSE IF limit > 200 THEN 200 ELSE limit
      left == IF Cardinality(hits) > skip THEN Cardinality(hits) - skip ELSE 0
  IN  /\ api' = [Answer("list_emails", <<>>, FALSE, 200) EXCEPT
                   !.count = IF left > lim THEN lim ELSE left]
      /\ UNCHANGED << store, mailbox, env, run, subj, body, cat, mime, bodies >>

\* mark_interested in which a failed chat delivery fails the request.
MarkInterested_SlackFatal(id, hook, slack_url) ==
  /\ IF ~ValidOid(id)
       THEN /\ api' = Answer("mark_interested", id, hook, 500)
            /\ UNCHANGED store
     ELSE IF FindById(store, id) = 0
       THEN /\ api' = Answer("mark_interested", id, hook, 404)
            /\ UNCHANGED store
     ELSE /\ store' = [store EXCEPT ![FindById(store, id)].ai_category = "Interested"]
          /\ \E s \in (IF slack_url THEN DeliveryOutcomes ELSE { "none" }),
                w \in (IF hook THEN DeliveryOutcomes ELSE { "none" }) :
               api' = IF s = "failed"
                        THEN [Answer("mark_interested", id, hook, 500) EXCEPT !.slack = s]
                        ELSE [Answer("mark_interested", id, hook, 200) EXCEPT
                                !.slack = s, !.webhook = w]
  /\ UNCHANGED << mailbox, env, run, subj, body, cat, mime, bodies >>

\* mark_interested: ObjectId(email_id), find_one, update_one, notify_slack
\* (skipped without SLACK_WEBHOOK_URL, its failure swallowed), the webhook
\* delivery when the payload has a webhook_url (its failure swallowed), ok.
MarkInterested(id, hook, slack_url) ==
  /\ IF ~ValidOid(id)
       THEN /\ api' = Answer("mark_interested", id, hook, 500)
            /\ UNCHANGED store
     ELSE IF FindById(store, id) = 0
       THEN /\ api' = Answer("mark_interested", id, hook, 404)
            /\ UNCHANGED store
     ELSE /\ store' = [store EXCEPT ![FindById(store, id)].ai_category = "Interested"]
          /\ \E s \in (IF slack_url THEN DeliveryOutcomes ELSE { "none" }),
                w \in (IF hook THEN DeliveryOutcomes ELSE { "none" }) :
               api' = [Answer("mark_interested", id, hook, 200) EXCEPT
                         !.slack = s, !.webhook = w]
  /\ UNCHANGED << mailbox, env, run, subj, body, cat, mime, bodies >>

\* suggest_reply: ObjectId(email_id), find_one, the best agenda document
\* for the query and the call-to-action test.
SuggestReply(id) ==
  /\ IF ~ValidOid(id)
       THEN api' = Answer("suggest_reply", id, FALSE, 500)
     ELSE IF FindById(store, id) = 0
       THEN api' = Answer("suggest_reply", id, FALSE, 404)
     ELSE LET em    == store[FindById(store, id)]
              query == Chars(em.subject) \o << Space >> \o Chars(em.body_text)
              best  == BestDoc(query, 1, 0, -1)
          IN  api' = [Answer("suggest_reply", id, FALSE, 200) EXCEPT
                        !.best = best,
                        !.cta = /\ em.ai_category = "Interested"
                                /\ best # 0
                                /\ Contains(AgendaDocs[best].content, T_CalCom)]
  /\ UNCHANGED << store, mailbox, env, run, subj, body, cat, mime, bodies >>

\* The identifiers the callers send.
EmailIds == { Oid(1), Oid(2), Oid(3), UnknownId, BadId }

InitApi == InitSync /\ env \in CapEnvs

\* Sync runs of account a1 over both folders, and the handlers called at
\* any time in between.
NextApi ==
  \/ TriggerSync("r1", "a1", << F_INBOX, F_Sent >>, 30)
  \/ SyncStep("r1")
  \/ Return("r1")
  \/ \E id \in { UnknownId, BadId } : TriggerSyncRejected(id)
  \/ \E a \in { "", "a1" }, f \in { <<>>, F_Sent }, q \in { <<>>, T_Hello },
        limit \in { 0, 50 }, skip \in { 0, 1 } : ListEmails(a, f, q, limit, skip)
  \/ \E id \in EmailIds, hook \in BOOLEAN, slack_url \in BOOLEAN :
       MarkInterested(id, hook, slack_url)
  \/ \E id \in EmailIds : SuggestReply(id)

SpecApi == InitApi /\ [][NextApi]_vars

\* The step is a mark_interested call that found record i.
MarksRecord(i) ==
  /\ run' = run
  /\ api'.call = "mark_interested"
  /\ api'.status = 200
  /\ api'.id = Oid(i)
  /\ store'[i] = [store[i] EXCEPT !.ai_category = "Interested"]

\* No record is deleted, and a record changes only by mark_interested
\* setting its category to "Interested".
RecordFrame ==
  /\ Len(store') >= Len(store)
  /\ \A i \in 1..Len(store) : store'[i] = store[i] \/ MarksRecord(i)

\* C12: across sync runs, mark-interested calls, listings and reply
\* suggestions no stored record is deleted and the only change made to an
\* existing record is mark-interested setting its category to "Interested";
\* a sync that meets the message again leaves the record as it is.
C12_RecordLifecycleFrame == [][RecordFrame]_vars

\* A sync run has just fetched again the message of record 2, whose
\* category was overridden: the category it computes is another one, and
\* the step after this one leaves the record alone.
C12_Witness ==
  /\ run["r1"].pc = "find"
  /\ Len(store) >= 2
  /\ run["r1"].cur.message_id = store[2].message_id
  /\ run["r1"].cur.ai_category = "Not Interested"
  /\ store[2].ai_category = "Interested"

\* The request named a record, or an account, that exists.
Addressed ==
  IF api.call = "trigger_sync"
    THEN \E a \in AccountIds : AccountOid(a) = api.id
    ELSE FindById(store, api.id) # 0

\* C13 (the claim as stated): mark-interested, suggest-reply and
\* sync-trigger on an identifier that is not in the store answer with a
\* not-found error and make no delivery.
C13_NotFoundReported ==
  (api.call \in { "mark_interested", "suggest_reply", "trigger_sync" } /\ ~Addressed)
    => /\ api.status = 404
       /\ api.slack = "none"
       /\ api.webhook = "none"

\* The step is a mark_interested call for a record of the store.
MarkCall ==
  /\ api' # api
  /\ api'.call = "mark_interested"
  /\ FindById(store, api'.id) # 0

\* The call answers ok, the record is "Interested", and the webhook
\* delivery is attempted when asked for, whatever the chat delivery did.
MarkSwallowsFailures ==
  MarkCall =>
    /\ api'.status = 200
    /\ store'[FindById(store, api'.id)].ai_category = "Interested"
    /\ api'.hook => api'.webhook \in DeliveryOutcomes

\* C14: for an existing message mark-interested sets the category to
\* "Interested" and answers ok whether the chat and webhook deliveries
\* succeed or fail, and a failed chat delivery does not prevent the webhook
\* delivery attempt.
C14_NotificationFailuresSwallowed == [][MarkSwallowsFailures]_vars

\* A call for record 2 whose chat and webhook deliveries both failed: the
\* answer is ok and the category is overridden.
C14_Witness ==
  /\ api.call = "mark_interested"
  /\ api.id = Oid(2)
  /\ api.slack = "failed"
  /\ api.webhook = "failed"
  /\ api.status = 200
  /\ Len(store) >= 2
  /\ store[2].ai_category = "Interested"
  /\ categorize_email(Chars(store[2].subject), Chars(store[2].body_text)) = "Not Interested"

====
